---- MODULE Spec2Model ----
(***************************************************************************)
(* A model of the append-only wave store of mem8-lite (src/src/lite.rs,    *)
(* struct Mem8Lite) and of the path facade built beside it                 *)
(* (src/src/lib.rs, struct Mem8Fs).                                        *)
(*                                                                         *)
(* Representation.                                                         *)
(*  - The log file is a sequence of cells.  The 8 bytes of a length prefix *)
(*    are 8 cells, one per byte, big-endian.  In a serialized packet one   *)
(*    cell stands for one fixed-width field of the bincode encoding (the   *)
(*    32-byte signature, a u64 length, one f64, the Option tag, one        *)
(*    metadata byte), and a record's length prefix counts those cells.     *)
(*  - An f64 is a natural number in fixed units, or one of the two codes   *)
(*    InfF (+infinity) and NaNF.  An encoding base b is the number         *)
(*    1000 * b (1000 is 1.0, 1618 is 1.618); a wave magnitude is counted   *)
(*    in units of 1/(255 * 1000).  The rounding error of the f64           *)
(*    operations between storing a magnitude and reading it back is far    *)
(*    below one unit; it is modelled as an arbitrary error of at most one  *)
(*    unit (RoundErr) on the magnitude read.                               *)
(*  - BLAKE3 is modelled as an injective function of the byte stream it    *)
(*    is fed (Blake3).                                                     *)
(***************************************************************************)
EXTENDS Integers, Sequences, FiniteSets, TLC

VARIABLES
    disk,        \* the content of the log file (cells)
    fpos,        \* Mem8Lite.file: the cursor of the open file handle
    isOpen,      \* whether a Mem8Lite instance exists
    frequency,   \* Mem8Lite.frequency
    cache,       \* Mem8Lite.cache : signature -> WavePacket
    position,    \* Mem8Lite.position
    clock,       \* SystemTime::now() in seconds
    last,        \* the last call made and what it returned
    failed,      \* some call has returned an error
    prev,        \* what the last closed instance held when it was closed
    stored,      \* the successful stores of the open instance, in order
    nStores,     \* number of store calls made
    nFails,      \* number of store calls that failed
    nOpens,      \* number of open calls made
    signed,      \* every successful store made so far, by any instance
    \* Mem8Fs (src/src/lib.rs)
    fsOpen,      \* whether a Mem8Fs instance exists
    fsIndex,     \* Mem8Fs.index.files : path -> FileEntry
    fsCache,     \* Mem8Fs.storage.cache : signature -> bytes
    fsMetadata,  \* Mem8Fs.metadata
    metaFile,    \* .mem8/meta.m8
    indexFile,   \* .mem8/index.m8
    dataFile,    \* .mem8/data.m8
    fsLast,      \* the last Mem8Fs call made and what it returned
    fsDeleted,   \* the paths deleted and not written since
    nFsCalls,    \* number of write, delete, copy and rename calls made
    nFsOpens,    \* number of Mem8Fs::new calls made
    \* Mem8McpServer (src/src/mcp_server.rs)
    mutex,       \* Mem8McpServer.storage: the thread holding the Mutex, 0 if none
    pc,          \* where each thread of the tool server is in its handler
    req,         \* the tool call each thread is serving
    nCalls,      \* number of tool calls made
    srv,         \* the other Mutex fields of Mem8McpServer: holders and contents
    \* MarineProcessor (src/src/marine.rs)
    marine,      \* the MarineProcessor: parameters, EMAs, recent_peaks
    mLast,       \* the last MarineProcessor call made and what it returned
    nScans       \* number of process_samples calls made

liteVars == <<disk, fpos, isOpen, frequency, cache, position, last,
              failed, prev, stored, nStores, nFails, nOpens, signed>>

fsVars == <<fsOpen, fsIndex, fsCache, fsMetadata, metaFile, indexFile, dataFile,
            fsLast, fsDeleted, nFsCalls, nFsOpens>>

mcpVars == <<mutex, pc, req, nCalls, srv>>

marineVars == <<marine, mLast, nScans>>

vars == <<liteVars, clock, fsVars, mcpVars, marineVars>>

---------------------------------------------------------------------------
\* Bounds of the model.
MaxLen == 1
MaxMeta == 1
MaxStores == 2
MaxOpens == 2
MaxClock == 1
MaxFails == 1

\* Program constants.
HDR == 8
InfF == 1000001
NaNF == 1000002

\* The byte values of the model, the ones the store is driven with, and the
\* encoding bases.
ByteSet == {0, 1, 127, 128, 200, 254, 255}
StoreBytes == {200}
BaseSet == {1000, 1618}
RoundErr == {-1, 0, 1}

RECURSIVE SeqsUpTo(_, _)
SeqsUpTo(S, n) ==
    IF n = 0 THEN {<<>>}
    ELSE LET shorter == SeqsUpTo(S, n - 1)
         IN  shorter \cup {Append(s, x) : s \in {t \in shorter : Len(t) = n - 1}, x \in S}

DataSet == SeqsUpTo(StoreBytes, MaxLen)

None == [some |-> FALSE, bytes |-> <<>>]
Some(m) == [some |-> TRUE, bytes |-> m]
MetaSet == {None} \cup {Some(m) : m \in SeqsUpTo(StoreBytes, MaxMeta)}

Min(a, b) == IF a < b THEN a ELSE b

---------------------------------------------------------------------------
\* The signature: BLAKE3 over the data, then over the metadata when present.
Rank(b) == Cardinality({x \in ByteSet : x <= b})

RECURSIVE Blake3(_)
Blake3(stream) ==
    IF stream = <<>> THEN 0
    ELSE Rank(Head(stream)) + (Cardinality(ByteSet) + 1) * Blake3(Tail(stream))

Signature(data, metadata) ==
    Blake3(IF metadata.some THEN data \o metadata.bytes ELSE data)

---------------------------------------------------------------------------
\* The codec.
\* f64 product base * (byte / 255), in units of 1/(255 * 1000).
Amplitude(base, byte) ==
    IF base = NaNF THEN NaNF
    ELSE IF base = InfF THEN (IF byte = 0 THEN NaNF ELSE InfF)
    ELSE base * byte

encode_to_waves(data) ==
    [i \in 1..Len(data) |-> [mag |-> Amplitude(frequency, data[i]), ph |-> i - 1]]

\* wave.norm() / self.frequency * 255.0, rounded half away from zero, as u8.
\* e is the rounding error of the magnitude read.
F64ToU8(x) == IF x < 0 THEN 0 ELSE IF x > 255 THEN 255 ELSE x

\* Mutant of DecodeByte: the quotient is cast to u8 without round().
DecodeByteTruncated(mag, base, e) ==
    IF mag = NaNF \/ base = NaNF THEN 0
    ELSE IF mag = InfF THEN (IF base = InfF THEN 0 ELSE 255)
    ELSE IF base = InfF THEN 0
    ELSE IF base < 0 THEN 0
    ELSE IF base = 0 THEN (IF mag = 0 THEN 0 ELSE 255)
    ELSE LET m == IF mag = 0 THEN 0 ELSE mag + e
         IN  F64ToU8(m \div base)

DecodeByte(mag, base, e) ==
    IF mag = NaNF \/ base = NaNF THEN 0
    ELSE IF mag = InfF THEN (IF base = InfF THEN 0 ELSE 255)
    ELSE IF base = InfF THEN 0
    ELSE IF base < 0 THEN 0
    ELSE IF base = 0 THEN (IF mag = 0 THEN 0 ELSE 255)
    ELSE LET m == IF mag = 0 THEN 0 ELSE mag + e
         IN  F64ToU8((2 * m + base) \div (2 * base))

decode_from_waves(waves, e) ==
    [i \in 1..Len(waves) |-> DecodeByte(waves[i].mag, frequency, e)]

---------------------------------------------------------------------------
\* bincode::serialize(packet): the fields in declaration order.
RECURSIVE WaveCells(_)
WaveCells(waves) ==
    IF waves = <<>> THEN <<>>
    ELSE <<Head(waves).mag, Head(waves).ph>> \o WaveCells(Tail(waves))

MetaCells(metadata) ==
    IF metadata.some THEN <<1, Len(metadata.bytes)>> \o metadata.bytes ELSE <<0>>

Serialize(packet) ==
    <<packet.signature, Len(packet.waves)>> \o WaveCells(packet.waves)
        \o MetaCells(packet.metadata) \o <<packet.frequency, packet.timestamp>>

\* bincode::deserialize::<WavePacket>(buffer): fixed-width reads in field order;
\* it fails when the buffer ends early or the Option tag is neither 0 nor 1, and
\* it accepts trailing bytes.
NoPacket ==
    [signature |-> 0, waves |-> <<>>, metadata |-> None, frequency |-> 0, timestamp |-> 0]

Deserialize(buffer) ==
    LET n == Len(buffer)
        bad == [ok |-> FALSE, packet |-> NoPacket]
    IN  IF n < 2 THEN bad
        ELSE LET nw == buffer[2]
                 wEnd == 2 + 2 * nw
             IN  IF wEnd + 1 > n THEN bad
                 ELSE LET waves == [i \in 1..nw |-> [mag |-> buffer[2 * i + 1],
                                                     ph |-> buffer[2 * i + 2]]]
                          tag == buffer[wEnd + 1]
                      IN  IF tag = 0
                          THEN IF wEnd + 3 > n THEN bad
                               ELSE [ok |-> TRUE,
                                     packet |-> [signature |-> buffer[1],
                                                 waves |-> waves,
                                                 metadata |-> None,
                                                 frequency |-> buffer[wEnd + 2],
                                                 timestamp |-> buffer[wEnd + 3]]]
                          ELSE IF tag = 1
                          THEN IF wEnd + 2 > n THEN bad
                               ELSE LET ml == buffer[wEnd + 2]
                                    IN  IF wEnd + 2 + ml + 2 > n THEN bad
                                        ELSE [ok |-> TRUE,
                                              packet |-> [signature |-> buffer[1],
                                                          waves |-> waves,
                                                          metadata |-> Some(SubSeq(buffer, wEnd + 3, wEnd + 2 + ml)),
                                                          frequency |-> buffer[wEnd + 3 + ml],
                                                          timestamp |-> buffer[wEnd + 4 + ml]]]
                          ELSE bad

---------------------------------------------------------------------------
\* The length prefix: write_u64::<BigEndian> and read_u64::<BigEndian>.
TooLong == 256 * 256

WriteU64BE(n) ==
    [i \in 1..HDR |-> IF i = HDR THEN n % 256
                      ELSE IF i = HDR - 1 THEN (n \div 256) % 256
                      ELSE 0]

\* The value of 8 cells read as a big-endian number; every value of TooLong or
\* more is longer than any file of the model and is reported as TooLong.
RECURSIVE ReadU64BE(_, _)
ReadU64BE(cells, acc) ==
    IF cells = <<>> THEN acc
    ELSE ReadU64BE(Tail(cells), Min(TooLong, acc * 256 + Min(TooLong, Head(cells))))

\* One record of the log.
Frame(packet) ==
    LET encoded == Serialize(packet) IN WriteU64BE(Len(encoded)) \o encoded

\* Writing cells at offset at of a file (File::write at the cursor).
WriteAt(file, at, cells) ==
    [i \in 1..(IF at + Len(cells) > Len(file) THEN at + Len(cells) ELSE Len(file)) |->
        IF i > at /\ i <= at + Len(cells) THEN cells[i - at] ELSE file[i]]

\* Mutant of CacheInsert: an entry already present is kept (entry().or_insert).
CacheInsertIfAbsent(c, packet) ==
    [s \in DOMAIN c \cup {packet.signature} |->
        IF s \in DOMAIN c THEN c[s] ELSE packet]

\* HashMap::insert(packet.signature, packet)
CacheInsert(c, packet) ==
    [s \in DOMAIN c \cup {packet.signature} |->
        IF s = packet.signature THEN packet ELSE c[s]]

EmptyCache == [s \in {} |-> NoPacket]

\* The loop of load_cache from offset off with cache c: the cache it builds and
\* whether it returned Ok.
LoopDeserialized(c, r) == IF r.ok THEN CacheInsert(c, r.packet) ELSE c

\* Mutant of LoadLoop: a record that does not deserialize ends the load with
\* an error (deserialize(..)? in place of if let Ok(..)).
RECURSIVE LoadLoopStrict(_, _, _)
LoadLoopStrict(file, off, c) ==
    IF off + HDR > Len(file)
    THEN [ok |-> TRUE, cache |-> c]
    ELSE LET len == ReadU64BE(SubSeq(file, off + 1, off + HDR), 0)
         IN  IF off + HDR + len > Len(file)
             THEN [ok |-> FALSE, cache |-> c]
             ELSE LET r == Deserialize(SubSeq(file, off + HDR + 1, off + HDR + len))
                  IN  IF r.ok
                      THEN LoadLoopStrict(file, off + HDR + len, CacheInsert(c, r.packet))
                      ELSE [ok |-> FALSE, cache |-> c]

RECURSIVE LoadLoop(_, _, _)
LoadLoop(file, off, c) ==
    IF off + HDR > Len(file)
    THEN [ok |-> TRUE, cache |-> c]
    ELSE LET len == ReadU64BE(SubSeq(file, off + 1, off + HDR), 0)
         IN  IF off + HDR + len > Len(file)
             THEN [ok |-> FALSE, cache |-> c]
             ELSE LoadLoop(file, off + HDR + len,
                      LoopDeserialized(c, Deserialize(SubSeq(file, off + HDR + 1, off + HDR + len))))

\* Mutant of LoadCacheSeekEnd: the cursor is left at the start of the file.
LoadCacheSeekStart(file) == 0

\* The file cursor load_cache leaves: seek(SeekFrom::End(0)).
LoadCacheSeekEnd(file) == Len(file)

---------------------------------------------------------------------------
\* MarineProcessor (src/src/marine.rs).  An f64 is an integer in units of
\* 1/Unit (900 is 0.9); sample positions and intervals are plain integers.
\* Products and quotients are taken in these units, quotients truncated.
Unit == 1000

MaxSampleLen == 5
MaxTotalLen == 5
MaxScans == 2

SampleSet == {-900, -150, 0, 900}
SamplesSet == SeqsUpTo(SampleSet, MaxSampleLen)
ClipSet == {0, 200}
GridSet == {0, 100000}
WonderSet == {400, 800}
RateSet == {0, 44100000}

Abs(x) == IF x < 0 THEN -x ELSE x

RECURSIVE SumOver(_, _)
SumOver(f, n) == IF n = 0 THEN 0 ELSE f[n] + SumOver(f, n - 1)

\* fold(0.0, f64::max)
RECURSIVE MaxOver(_, _)
MaxOver(f, n) ==
    IF n = 0 THEN 0
    ELSE IF f[n] > MaxOver(f, n - 1) THEN f[n] ELSE MaxOver(f, n - 1)

\* impl Default for SalienceWeights
DefaultWeights == [energy |-> 400, jitter |-> 300, harmonic |-> 200, wonder |-> 100]

\* ExponentialMovingAverage::new(0.125) and update
EmaAlpha == 125

EmaUpdate(value, new_value) ==
    (EmaAlpha * new_value + (Unit - EmaAlpha) * value) \div Unit

\* MarineProcessor::new()
MarineNew ==
    [clip_threshold |-> 100, grid_tick_rate |-> 100000, wonder_threshold |-> 800,
     timing_ema |-> 0, amplitude_ema |-> 0, recent_peaks |-> <<>>,
     weights |-> DefaultWeights]

\* MarineProcessor::for_audio(sample_rate)
for_audio(sample_rate) ==
    [MarineNew EXCEPT !.grid_tick_rate = sample_rate \div 441,
                      !.clip_threshold = 50,
                      !.wonder_threshold = 700]

\* The pub fields set by the caller.
Configured(mp, clip, grid, wonder) ==
    [mp EXCEPT !.clip_threshold = clip, !.grid_tick_rate = grid,
               !.wonder_threshold = wonder]

\* The musical ratios of calculate_harmonic_alignment.
Harmonics == <<1000, 2000, 1500, 1333, 1250, 1618>>

\* One round of the loop of calculate_harmonic_alignment: interval divided
\* by a zero grid_tick_rate is infinite, its fract() is NaN, and
\* best_score.max(NaN) keeps best_score.
HarmonicScore(mp, interval, harmonic) ==
    IF mp.grid_tick_rate = 0 THEN 0
    ELSE LET ratio == (interval * Unit * Unit) \div mp.grid_tick_rate
             distance == ((ratio * Unit) \div harmonic) % Unit
         IN  Unit - Min(distance, Unit - distance)

RECURSIVE BestScore(_, _, _)
BestScore(mp, interval, k) ==
    IF k = 0 THEN 0
    ELSE LET best == BestScore(mp, interval, k - 1)
             score == HarmonicScore(mp, interval, Harmonics[k])
         IN  IF score > best THEN score ELSE best

calculate_harmonic_alignment(mp, interval) == BestScore(mp, interval, Len(Harmonics))

\* calculate_wonder_factor(energy, jitter_score)
GoldenScore(intervals) ==
    Cardinality({i \in 2..Len(intervals) :
                   Abs((intervals[i] * Unit) \div intervals[i - 1] - 1618) < 100})

calculate_wonder_factor(mp, energy, jitter_score) ==
    LET power_wonder == (energy * jitter_score) \div Unit
        intervals == [i \in 1..Len(mp.recent_peaks) |-> mp.recent_peaks[i].interval]
        golden_wonder == IF Len(mp.recent_peaks) >= 3
                         THEN (GoldenScore(intervals) * Unit) \div Len(intervals)
                         ELSE 0
    IN  power_wonder + golden_wonder \div 2

\* calculate_salience(energy, timing_jitter, amplitude_jitter, harmonic)
calculate_salience(mp, energy, timing_jitter, amplitude_jitter, harmonic) ==
    LET jitter_score == (Unit * Unit) \div (Unit + timing_jitter + amplitude_jitter)
        wonder == calculate_wonder_factor(mp, energy, jitter_score)
    IN  (mp.weights.energy * energy + mp.weights.jitter * jitter_score
         + mp.weights.harmonic * harmonic + mp.weights.wonder * wonder) \div Unit

\* The divisors of the divisions made for one peak.
PeakDivisors(mp, timing_jitter, amplitude_jitter) ==
    {mp.grid_tick_rate, Unit + timing_jitter + amplitude_jitter}
        \cup {Harmonics[k] : k \in 1..Len(Harmonics)}
        \cup (IF Len(mp.recent_peaks) >= 3
              THEN {mp.recent_peaks[i].interval : i \in 1..(Len(mp.recent_peaks) - 1)}
                       \cup {Len(mp.recent_peaks)}
              ELSE {})

\* Mutant of Gated: the threshold follows the amplitude average of the
\* processor.
GatedAdaptive(mp, samples) ==
    [i \in 1..Len(samples) |->
        IF Abs(samples[i]) < mp.clip_threshold \/ Abs(samples[i]) < mp.amplitude_ema
        THEN 0 ELSE samples[i]]

\* Pre-gating: samples below the clip threshold become 0.
Gated(mp, samples) ==
    [i \in 1..Len(samples) |->
        IF Abs(samples[i]) < mp.clip_threshold THEN 0 ELSE samples[i]]

\* has_wonder
HasWonderBelow(salience, threshold) == salience < threshold

HasWonder(salience, threshold) == salience > threshold

RecentCap == 32

\* Mutant of PushRecent: a full buffer drops the new record, not the oldest.
PushRecentKeepOldest(recent, peak) ==
    IF Len(recent) >= RecentCap THEN recent ELSE Append(recent, peak)

PushRecent(recent, peak) ==
    LET pushed == Append(recent, peak)
    IN  IF Len(pushed) > RecentCap THEN Tail(pushed) ELSE pushed

\* Is sample index i (from 0, as in the code) a peak of gated?
IsPeakAt(gated, i) ==
    /\ gated[i] < gated[i + 1]
    /\ gated[i + 1] > gated[i + 2]
    /\ gated[i + 1] /= 0

\* The body of the loop of process_samples for a peak at index i.
PeakStep(st, gated, i) ==
    LET mp == st.mp
        interval == i - st.last_peak_index
        expected_timing == EmaUpdate(mp.timing_ema, interval * Unit)
        expected_amplitude == EmaUpdate(mp.amplitude_ema, Abs(gated[i + 1]))
        timing_jitter == Abs(interval * Unit - expected_timing)
        amplitude_jitter == Abs(Abs(gated[i + 1]) - expected_amplitude)
        mp1 == [mp EXCEPT !.timing_ema = expected_timing,
                          !.amplitude_ema = expected_amplitude]
        harmonic_score == calculate_harmonic_alignment(mp1, interval)
        salience == calculate_salience(mp1, Abs(gated[i + 1]), timing_jitter,
                                       amplitude_jitter, harmonic_score)
        peak == [index |-> i, amplitude |-> gated[i + 1], interval |-> interval,
                 timing_jitter |-> timing_jitter, amplitude_jitter |-> amplitude_jitter,
                 salience |-> salience,
                 has_wonder |-> HasWonder(salience, mp.wonder_threshold)]
    IN  [mp |-> [mp1 EXCEPT !.recent_peaks = PushRecent(mp.recent_peaks, peak)],
         peaks |-> Append(st.peaks, peak),
         last_peak_index |-> i,
         divisors |-> st.divisors \cup PeakDivisors(mp1, timing_jitter, amplitude_jitter)]

\* Mutant of LoopFrom: the loop runs to the last sample but one excluded.
RECURSIVE LoopFromShort(_, _, _)
LoopFromShort(st, gated, i) ==
    IF i >= Len(gated) - 2 THEN st
    ELSE LoopFromShort(IF IsPeakAt(gated, i) THEN PeakStep(st, gated, i) ELSE st,
                       gated, i + 1)

\* for i in 1..gated.len()-1
RECURSIVE LoopFrom(_, _, _)
LoopFrom(st, gated, i) ==
    IF i >= Len(gated) - 1 THEN st
    ELSE LoopFrom(IF IsPeakAt(gated, i) THEN PeakStep(st, gated, i) ELSE st,
                  gated, i + 1)

\* Mutant of process_samples: the scan starts with last_peak_index = 1.
process_samples_from_one(mp, samples) ==
    IF Len(samples) = 0
    THEN [panicked |-> TRUE, peaks |-> <<>>, mp |-> mp, divisors |-> {}]
    ELSE LET st == LoopFrom([mp |-> mp, peaks |-> <<>>, last_peak_index |-> 1,
                             divisors |-> {}],
                            Gated(mp, samples), 1)
         IN  [panicked |-> FALSE, peaks |-> st.peaks, mp |-> st.mp,
              divisors |-> st.divisors]

\* process_samples(samples): the peaks returned, the processor afterwards and
\* the divisors used.  With no sample, gated.len() - 1 underflows: the debug
\* build panics on the subtraction, the release build wraps it and panics on
\* gated[i + 1], out of range; both before anything is changed.
process_samples(mp, samples) ==
    IF Len(samples) = 0
    THEN [panicked |-> TRUE, peaks |-> <<>>, mp |-> mp, divisors |-> {}]
    ELSE LET st == LoopFrom([mp |-> mp, peaks |-> <<>>, last_peak_index |-> 0,
                             divisors |-> {}],
                            Gated(mp, samples), 1)
         IN  [panicked |-> FALSE, peaks |-> st.peaks, mp |-> st.mp,
              divisors |-> st.divisors]

\* detect_rhythm(peaks): variance < (mean * 0.2)^2 over the k differences of
\* consecutive positions, both sides multiplied by 25 * k^3.
RhythmMinPeaks == 4

\* Mutant of detect_rhythm: three peaks are enough.
detect_rhythm_from_three(peaks) ==
    IF Len(peaks) < RhythmMinPeaks - 1 THEN FALSE
    ELSE LET k == Len(peaks) - 1
             intervals == [i \in 1..k |-> peaks[i + 1].index - peaks[i].index]
             sum == SumOver(intervals, k)
             squares == [i \in 1..k |-> (k * intervals[i] - sum) * (k * intervals[i] - sum)]
         IN  25 * SumOver(squares, k) < k * sum * sum

detect_rhythm(peaks) ==
    IF Len(peaks) < RhythmMinPeaks THEN FALSE
    ELSE LET k == Len(peaks) - 1
             intervals == [i \in 1..k |-> peaks[i + 1].index - peaks[i].index]
             sum == SumOver(intervals, k)
             squares == [i \in 1..k |-> (k * intervals[i] - sum) * (k * intervals[i] - sum)]
         IN  25 * SumOver(squares, k) < k * sum * sum

\* detect_emotion(peaks): the first matching arm of the match.
LabelMusicalFirst(avg_num, wonders, n) ==
    IF 2 * wonders > n THEN "Wondrous"
    ELSE IF avg_num > 800 * n THEN "Energetic"
    ELSE IF 10 * wonders > 3 * n THEN "Musical"
    ELSE IF avg_num < 200 * n THEN "Peaceful"
    ELSE "Flowing"

Label(avg_num, wonders, n) ==
    IF 2 * wonders > n THEN "Wondrous"
    ELSE IF avg_num > 800 * n THEN "Energetic"
    ELSE IF avg_num < 200 * n THEN "Peaceful"
    ELSE IF 10 * wonders > 3 * n THEN "Musical"
    ELSE "Flowing"

Wonders(peaks) == Cardinality({i \in 1..Len(peaks) : peaks[i].has_wonder})

detect_emotion(peaks) ==
    LET n == IF Len(peaks) > 1 THEN Len(peaks) ELSE 1
        amplitudes == [i \in 1..Len(peaks) |-> Abs(peaks[i].amplitude)]
    IN  Label(SumOver(amplitudes, Len(peaks)), Wonders(peaks), n)

\* Mutant of extract_metadata: the average divides by peaks.len(), and the
\* quotient 0.0 / 0.0 is NaN.
extract_metadata_unguarded(peaks) ==
    LET n == Len(peaks)
        saliences == [i \in 1..Len(peaks) |-> peaks[i].salience]
    IN  [total_peaks |-> Len(peaks),
         wonder_count |-> Wonders(peaks),
         average_salience |-> IF n = 0 THEN NaNF ELSE SumOver(saliences, Len(peaks)) \div n,
         max_salience |-> MaxOver(saliences, Len(peaks)),
         has_rhythm |-> detect_rhythm(peaks),
         emotional_signature |-> detect_emotion(peaks),
         divisors |-> {n} \cup (IF Len(peaks) >= RhythmMinPeaks THEN {Len(peaks) - 1} ELSE {})]

\* extract_metadata(peaks)
extract_metadata(peaks) ==
    LET n == IF Len(peaks) > 1 THEN Len(peaks) ELSE 1
        saliences == [i \in 1..Len(peaks) |-> peaks[i].salience]
    IN  [total_peaks |-> Len(peaks),
         wonder_count |-> Wonders(peaks),
         average_salience |-> SumOver(saliences, Len(peaks)) \div n,
         max_salience |-> MaxOver(saliences, Len(peaks)),
         has_rhythm |-> detect_rhythm(peaks),
         emotional_signature |-> detect_emotion(peaks),
         divisors |-> {n} \cup (IF Len(peaks) >= RhythmMinPeaks THEN {Len(peaks) - 1} ELSE {})]

NoMetadata == [total_peaks |-> 0, wonder_count |-> 0, average_salience |-> 0,
               max_salience |-> 0,
               has_rhythm |-> FALSE, emotional_signature |-> "", divisors |-> {}]

NoMarineCall == [op |-> "none", samples |-> <<>>, panicked |-> FALSE, peaks |-> <<>>,
                 divisors |-> {}, metadata |-> NoMetadata, before |-> MarineNew,
                 total |-> 0, emitted |-> <<>>]

\* The processor of a run that does not use it.
InitMarineDefault ==
    /\ marine = MarineNew
    /\ mLast = NoMarineCall
    /\ nScans = 0

---------------------------------------------------------------------------
\* The tool server (src/src/mcp_server.rs): its threads and the Mutex around
\* the store.
MaxThreads == 2
MaxCalls == 3

Threads == 1..MaxThreads

NoReq == [tool |-> "none", data |-> <<>>, perspective |-> 0, signature |-> 0,
          packet |-> NoPacket, done |-> FALSE, ok |-> TRUE, found |-> FALSE,
          contended |-> FALSE, step |-> 0, activity |-> ""]

\* The Mutex fields the mood, activity, DJ and sensor tools lock.
MutexNames == {"mood_engine", "current_activity", "dj_mode", "sensor_buffer"}

\* Mem8McpServer::new: no mutex held, Activity::Programming, empty buffers.
NewServer ==
    [locks |-> [m \in MutexNames |-> 0],
     current_activity |-> "Programming",
     activity_log |-> 0,
     fatigue_level |-> 0]

InitMcp ==
    /\ mutex = 0
    /\ pc = [t \in Threads |-> "idle"]
    /\ req = [t \in Threads |-> NoReq]
    /\ nCalls = 0
    /\ srv = NewServer

---------------------------------------------------------------------------
\* The initial content of the log file: no file yet; a log a former process
\* was writing when it died inside the length prefix of its first record; a
\* log holding a record that does not deserialize between two that do.
OldPacket(data, ts) ==
    [signature |-> Signature(data, None),
     waves |-> [i \in 1..Len(data) |-> [mag |-> Amplitude(1000, data[i]), ph |-> i - 1]],
     metadata |-> None, frequency |-> 1000, timestamp |-> ts]

PartialHeaderLog == SubSeq(WriteU64BE(0), 1, 3)

CorruptRecord == WriteU64BE(3) \o <<0, 0, 7>>

CorruptLog == Frame(OldPacket(<<200>>, 0)) \o CorruptRecord \o Frame(OldPacket(<<0>>, 0))

InitDisks == {<<>>, PartialHeaderLog, CorruptLog}

NoCall == [op |-> "none", ok |-> TRUE, sig |-> 0, bytes |-> <<>>, meta |-> None, n |-> 0]
NoPrev == [closed |-> FALSE, frequency |-> 0, view |-> [s \in {} |-> {}], stored |-> <<>>]

InitLite(disks) ==
    /\ disk \in disks
    /\ fpos = 0
    /\ isOpen = FALSE
    /\ frequency = 0
    /\ cache = EmptyCache
    /\ position = 0
    /\ clock = 0
    /\ last = NoCall
    /\ failed = FALSE
    /\ prev = NoPrev
    /\ stored = <<>>
    /\ nStores = 0
    /\ nFails = 0
    /\ nOpens = 0
    /\ signed = {}

\* No Mem8Fs exists and its root directory is empty.
NoFile == [exists |-> FALSE, written |-> FALSE, files |-> <<>>]
NoFsMetadata == [version |-> 0, created |-> 0, base_frequency |-> 0,
                 total_files |-> 0, total_size |-> 0]
NoFsCall == [op |-> "none", ok |-> TRUE, path |-> "", bytes |-> <<>>, flag |-> FALSE]

InitFs ==
    /\ fsOpen = FALSE
    /\ fsIndex = <<>>
    /\ fsCache = <<>>
    /\ fsMetadata = NoFsMetadata
    /\ metaFile = [exists |-> FALSE, meta |-> NoFsMetadata]
    /\ indexFile = NoFile
    /\ dataFile = <<>>
    /\ fsLast = NoFsCall
    /\ fsDeleted = {}
    /\ nFsCalls = 0
    /\ nFsOpens = 0

Init == InitLite(InitDisks) /\ InitFs /\ InitMcp /\ InitMarineDefault

\* What retrieve may return for a signature of the cache, over the rounding errors.
RetrieveResults(sig) ==
    {decode_from_waves(cache[sig].waves, e) : e \in RoundErr}

\* Mem8Lite::new(path, f)
Open(f) ==
    /\ ~isOpen
    /\ nOpens < MaxOpens
    /\ nOpens' = nOpens + 1
    /\ LET r == LoadLoop(disk, 0, EmptyCache)
       IN  IF r.ok
           THEN /\ isOpen' = TRUE
                /\ frequency' = f
                /\ cache' = r.cache
                /\ position' = LoadCacheSeekEnd(disk)
                /\ fpos' = LoadCacheSeekEnd(disk)
                /\ last' = [NoCall EXCEPT !.op = "open", !.n = f]
                /\ UNCHANGED failed
           ELSE /\ last' = [NoCall EXCEPT !.op = "open", !.ok = FALSE, !.n = f]
                /\ failed' = TRUE
                /\ UNCHANGED <<isOpen, frequency, cache, position, fpos>>
    /\ stored' = <<>>
    /\ UNCHANGED <<disk, clock, prev, nStores, nFails>>
    /\ UNCHANGED <<signed, fsVars, mcpVars, marineVars>>

\* The instance is dropped.
Close ==
    /\ isOpen
    /\ isOpen' = FALSE
    /\ prev' = [closed |-> TRUE, frequency |-> frequency,
                view |-> [s \in DOMAIN cache |-> RetrieveResults(s)],
                stored |-> stored]
    /\ frequency' = 0
    /\ cache' = EmptyCache
    /\ position' = 0
    /\ fpos' = 0
    /\ stored' = <<>>
    /\ last' = [NoCall EXCEPT !.op = "close"]
    /\ UNCHANGED <<disk, clock, failed, nStores, nFails, nOpens>>
    /\ UNCHANGED <<signed, fsVars, mcpVars, marineVars>>

\* Mutant of NewPacket: the time of the call is hashed with the content.
NewPacketSignedWithTime(data, metadata) ==
    [signature |-> Blake3((IF metadata.some THEN data \o metadata.bytes ELSE data)
                          \o <<clock>>),
     waves |-> encode_to_waves(data),
     metadata |-> metadata,
     frequency |-> frequency,
     timestamp |-> clock]

\* The packet store builds.
NewPacket(data, metadata) ==
    [signature |-> Signature(data, metadata),
     waves |-> encode_to_waves(data),
     metadata |-> metadata,
     frequency |-> frequency,
     timestamp |-> clock]

\* Mem8Lite::store(data, metadata) returning Ok(signature)
Store(data, metadata) ==
    /\ isOpen
    /\ nStores < MaxStores
    /\ nStores' = nStores + 1
    /\ LET packet == NewPacket(data, metadata)
           record == Frame(packet)
       IN  /\ disk' = WriteAt(disk, fpos, record)
           /\ fpos' = fpos + Len(record)
           /\ position' = position + Len(record)
           /\ cache' = CacheInsert(cache, packet)
           /\ stored' = Append(stored, [data |-> data, meta |-> metadata,
                                        sig |-> packet.signature, ts |-> clock,
                                        at |-> fpos])
           /\ last' = [NoCall EXCEPT !.op = "store", !.sig = packet.signature,
                                     !.bytes = data, !.meta = metadata]
           /\ signed' = signed \cup {[data |-> data, meta |-> metadata,
                                      sig |-> packet.signature,
                                      base |-> frequency, ts |-> clock]}
    /\ UNCHANGED <<isOpen, frequency, clock, failed, prev, nFails, nOpens>>
    /\ UNCHANGED <<fsVars, mcpVars, marineVars>>

\* Mutant of CacheAfterFailedStore: the packet is cached before it is persisted.
CacheInsertedBeforePersist(c, packet) == CacheInsert(c, packet)

\* The cache after a store whose persist_packet returned an error.
CacheAfterFailedStore(c, packet) == c

\* Mem8Lite::store(data, metadata) returning Err: write_u64 or write_all failed
\* after k cells of the record had reached the file.
StoreFail(data, metadata, k) ==
    /\ isOpen
    /\ nStores < MaxStores
    /\ nStores' = nStores + 1
    /\ LET packet == NewPacket(data, metadata)
           record == Frame(packet)
       IN  /\ k < Len(record)
           /\ disk' = WriteAt(disk, fpos, SubSeq(record, 1, k))
           /\ fpos' = fpos + k
           /\ cache' = CacheAfterFailedStore(cache, packet)
           /\ last' = [NoCall EXCEPT !.op = "store", !.ok = FALSE, !.sig = packet.signature,
                                     !.bytes = data, !.meta = metadata, !.n = k]
    /\ failed' = TRUE
    /\ nFails < MaxFails
    /\ nFails' = nFails + 1
    /\ UNCHANGED <<isOpen, frequency, position, clock, prev, stored, nOpens>>
    /\ UNCHANGED <<signed, fsVars, mcpVars, marineVars>>

\* Mutant of Retrieve: a miss returns Ok with no bytes (unwrap_or_default).
RetrieveOrEmpty(sig) ==
    /\ isOpen
    /\ IF sig \in DOMAIN cache
       THEN \E out \in RetrieveResults(sig) :
                last' = [NoCall EXCEPT !.op = "retrieve", !.sig = sig, !.bytes = out]
       ELSE last' = [NoCall EXCEPT !.op = "retrieve", !.sig = sig]
    /\ UNCHANGED <<disk, fpos, isOpen, frequency, cache, position, clock,
                   failed, prev, stored, nStores, nFails, nOpens>>
    /\ UNCHANGED <<signed, fsVars, mcpVars, marineVars>>

\* Mem8Lite::retrieve(signature)
Retrieve(sig) ==
    /\ isOpen
    /\ IF sig \in DOMAIN cache
       THEN \E out \in RetrieveResults(sig) :
                last' = [NoCall EXCEPT !.op = "retrieve", !.sig = sig, !.bytes = out]
       ELSE last' = [NoCall EXCEPT !.op = "retrieve", !.ok = FALSE, !.sig = sig]
    /\ UNCHANGED <<disk, fpos, isOpen, frequency, cache, position, clock,
                   failed, prev, stored, nStores, nFails, nOpens>>
    /\ UNCHANGED <<signed, fsVars, mcpVars, marineVars>>

\* Mem8Lite::get_metadata(signature)
GetMetadata(sig) ==
    /\ isOpen
    /\ last' = [NoCall EXCEPT !.op = "get_metadata", !.sig = sig,
                              !.ok = (sig \in DOMAIN cache /\ cache[sig].metadata.some),
                              !.meta = IF sig \in DOMAIN cache THEN cache[sig].metadata ELSE None]
    /\ UNCHANGED <<disk, fpos, isOpen, frequency, cache, position, clock,
                   failed, prev, stored, nStores, nFails, nOpens>>
    /\ UNCHANGED <<signed, fsVars, mcpVars, marineVars>>

\* Mem8Lite::load_all()
LoadAll ==
    /\ isOpen
    /\ LET r == LoadLoop(disk, 0, cache)
       IN  /\ cache' = r.cache
           /\ fpos' = LoadCacheSeekEnd(disk)
           /\ IF r.ok
              THEN /\ position' = LoadCacheSeekEnd(disk)
                   /\ last' = [NoCall EXCEPT !.op = "load_all", !.n = Cardinality(DOMAIN r.cache)]
                   /\ UNCHANGED failed
              ELSE /\ last' = [NoCall EXCEPT !.op = "load_all", !.ok = FALSE]
                   /\ failed' = TRUE
                   /\ UNCHANGED position
    /\ UNCHANGED <<disk, isOpen, frequency, clock, prev, stored, nStores, nFails, nOpens>>
    /\ UNCHANGED <<signed, fsVars, mcpVars, marineVars>>

\* Mem8Lite::stats(): packet_count, with total_size in the sig field of last.
Stats ==
    /\ isOpen
    /\ last' = [NoCall EXCEPT !.op = "stats", !.n = Cardinality(DOMAIN cache), !.sig = position]
    /\ UNCHANGED <<disk, fpos, isOpen, frequency, cache, position, clock,
                   failed, prev, stored, nStores, nFails, nOpens>>
    /\ UNCHANGED <<signed, fsVars, mcpVars, marineVars>>

\* A second passes.
Tick ==
    /\ clock < MaxClock
    /\ clock' = clock + 1
    /\ UNCHANGED <<liteVars, fsVars, mcpVars, marineVars>>

\* The signatures the callers ask for.
ProbeSigs == {Signature(d, None) : d \in DataSet}

\* Where a failing write stops: before the record, inside the length prefix,
\* after the length prefix, inside the packet.
FailPoints == {0, 3, HDR + 2}

Next ==
    \/ \E f \in BaseSet : Open(f)
    \/ Close
    \/ \E d \in DataSet, m \in MetaSet : Store(d, m)
    \/ \E d \in DataSet, m \in MetaSet, k \in FailPoints : StoreFail(d, m, k)
    \/ \E s \in ProbeSigs : Retrieve(s)
    \/ \E s \in ProbeSigs : GetMetadata(s)
    \/ LoadAll
    \/ Stats
    \/ Tick

Spec == Init /\ [][Next]_vars

---------------------------------------------------------------------------
\* Mem8Fs, the path facade (src/src/lib.rs).
MaxFsCalls == 3
MaxFsOpens == 2

\* The paths the callers pass; "a" is relative.
PathArgs == {"a", "/a", "/b"}

\* normalize_path: an absolute path is kept, a relative one is joined to "/".
normalize_path(path) == IF path = "a" THEN "/a" ELSE path

MapPut(f, k, v) == [x \in DOMAIN f \cup {k} |-> IF x = k THEN v ELSE f[x]]
MapRemove(f, k) == [x \in DOMAIN f \ {k} |-> f[x]]

\* generate_signature: BLAKE3 over the data, then over the bytes of
\* base_frequency (one cell of the stream here).
generate_signature(data) == Blake3(Append(data, 255))

\* WaveStorage::encode_waves: normalized = byte / 255 at phase 2 pi i / n.
encode_waves(data) ==
    [i \in 1..Len(data) |-> [mag |-> Amplitude(1000, data[i]), ph |-> i - 1]]

\* save_index: std::fs::write of the serialized index.
save_index(index) == [exists |-> TRUE, written |-> TRUE, files |-> index]

\* Mutant of IndexFileAfterDelete: delete does not save the index.
IndexFileNotSaved(old, index) == old

\* The index file after delete has removed the entry: self.save_index(&index).
IndexFileAfterDelete(old, index) == save_index(index)

\* The files and maps one Mem8Fs call works on.
FsState == [index |-> fsIndex, cache |-> fsCache, data |-> dataFile, ifile |-> indexFile]

\* Mem8Fs::write on a normalized path: WaveStorage::store, then the index entry,
\* then save_index.
FsWriteTo(st, p, data) ==
    LET signature == generate_signature(data)
        entry == [signature |-> signature, size |-> Len(data), created |-> clock,
                  modified |-> clock, wave_frequency |-> fsMetadata.base_frequency]
        index == MapPut(st.index, p, entry)
    IN  [index |-> index,
         cache |-> MapPut(st.cache, signature, data),
         data |-> Append(st.data, [signature |-> signature, waves |-> encode_waves(data)]),
         ifile |-> save_index(index)]

\* Mem8Fs::read on a normalized path: the index lookup, then WaveStorage::retrieve.
FsReadFrom(st, p) ==
    IF p \notin DOMAIN st.index THEN [ok |-> FALSE, bytes |-> <<>>]
    ELSE LET signature == st.index[p].signature
         IN  IF signature \in DOMAIN st.cache
             THEN [ok |-> TRUE, bytes |-> st.cache[signature]]
             ELSE [ok |-> FALSE, bytes |-> <<>>]

\* Mem8Fs::delete on a normalized path.
FsDeleteFrom(st, p) ==
    IF p \notin DOMAIN st.index THEN [ok |-> FALSE, st |-> st]
    ELSE [ok |-> TRUE,
          st |-> [st EXCEPT !.index = MapRemove(st.index, p),
                            !.ifile = IndexFileAfterDelete(st.ifile, MapRemove(st.index, p))]]

FsApply(st) ==
    /\ fsIndex' = st.index
    /\ fsCache' = st.cache
    /\ dataFile' = st.data
    /\ indexFile' = st.ifile

\* Mem8Fs::new(root)
FsNew ==
    /\ ~fsOpen
    /\ nFsOpens < MaxFsOpens
    /\ nFsOpens' = nFsOpens + 1
    /\ LET meta == IF metaFile.exists THEN metaFile.meta
                   ELSE [version |-> 1, created |-> clock, base_frequency |-> 1618,
                         total_files |-> 0, total_size |-> 0]
       IN  /\ metaFile' = [exists |-> TRUE, meta |-> meta]
           /\ IF indexFile.exists /\ ~indexFile.written
              THEN /\ fsLast' = [NoFsCall EXCEPT !.op = "new", !.ok = FALSE]
                   /\ UNCHANGED <<fsOpen, fsIndex, fsCache, fsMetadata, indexFile>>
              ELSE /\ fsOpen' = TRUE
                   /\ fsIndex' = indexFile.files
                   /\ fsCache' = <<>>
                   /\ fsMetadata' = meta
                   /\ indexFile' = [indexFile EXCEPT !.exists = TRUE]
                   /\ fsLast' = [NoFsCall EXCEPT !.op = "new"]
    /\ UNCHANGED <<dataFile, fsDeleted, nFsCalls, liteVars, clock, mcpVars, marineVars>>

\* The Mem8Fs instance is dropped.
FsClose ==
    /\ fsOpen
    /\ fsOpen' = FALSE
    /\ fsIndex' = <<>>
    /\ fsCache' = <<>>
    /\ fsMetadata' = NoFsMetadata
    /\ fsLast' = [NoFsCall EXCEPT !.op = "close"]
    /\ UNCHANGED <<metaFile, indexFile, dataFile, fsDeleted, nFsCalls, nFsOpens,
                   liteVars, clock, mcpVars, marineVars>>

\* Mem8Fs::write(path, data)
FsWrite(path, data) ==
    /\ fsOpen
    /\ nFsCalls < MaxFsCalls
    /\ nFsCalls' = nFsCalls + 1
    /\ FsApply(FsWriteTo(FsState, normalize_path(path), data))
    /\ fsDeleted' = fsDeleted \ {normalize_path(path)}
    /\ fsLast' = [NoFsCall EXCEPT !.op = "write", !.path = normalize_path(path), !.bytes = data]
    /\ UNCHANGED <<fsOpen, fsMetadata, metaFile, nFsOpens, liteVars, clock, mcpVars, marineVars>>

\* Mem8Fs::read(path)
FsRead(path) ==
    /\ fsOpen
    /\ LET r == FsReadFrom(FsState, normalize_path(path))
       IN  fsLast' = [NoFsCall EXCEPT !.op = "read", !.ok = r.ok,
                                      !.path = normalize_path(path), !.bytes = r.bytes]
    /\ UNCHANGED <<fsOpen, fsIndex, fsCache, fsMetadata, metaFile, indexFile, dataFile,
                   fsDeleted, nFsCalls, nFsOpens, liteVars, clock, mcpVars, marineVars>>

\* Mem8Fs::exists(path)
FsExists(path) ==
    /\ fsOpen
    /\ fsLast' = [NoFsCall EXCEPT !.op = "exists", !.path = normalize_path(path),
                                  !.flag = (normalize_path(path) \in DOMAIN fsIndex)]
    /\ UNCHANGED <<fsOpen, fsIndex, fsCache, fsMetadata, metaFile, indexFile, dataFile,
                   fsDeleted, nFsCalls, nFsOpens, liteVars, clock, mcpVars, marineVars>>

\* Mem8Fs::delete(path)
FsDelete(path) ==
    /\ fsOpen
    /\ nFsCalls < MaxFsCalls
    /\ nFsCalls' = nFsCalls + 1
    /\ LET r == FsDeleteFrom(FsState, normalize_path(path))
       IN  /\ FsApply(r.st)
           /\ fsDeleted' = IF r.ok THEN fsDeleted \cup {normalize_path(path)} ELSE fsDeleted
           /\ fsLast' = [NoFsCall EXCEPT !.op = "delete", !.ok = r.ok,
                                         !.path = normalize_path(path)]
    /\ UNCHANGED <<fsOpen, fsMetadata, metaFile, nFsOpens, liteVars, clock, mcpVars, marineVars>>

\* Mem8Fs::copy(from, to)
FsCopy(from, to) ==
    /\ fsOpen
    /\ nFsCalls < MaxFsCalls
    /\ nFsCalls' = nFsCalls + 1
    /\ LET r == FsReadFrom(FsState, normalize_path(from))
       IN  IF r.ok
           THEN /\ FsApply(FsWriteTo(FsState, normalize_path(to), r.bytes))
                /\ fsDeleted' = fsDeleted \ {normalize_path(to)}
                /\ fsLast' = [NoFsCall EXCEPT !.op = "copy", !.path = normalize_path(to),
                                              !.bytes = r.bytes]
           ELSE /\ fsLast' = [NoFsCall EXCEPT !.op = "copy", !.ok = FALSE,
                                              !.path = normalize_path(to)]
                /\ UNCHANGED <<fsIndex, fsCache, dataFile, indexFile, fsDeleted>>
    /\ UNCHANGED <<fsOpen, fsMetadata, metaFile, nFsOpens, liteVars, clock, mcpVars, marineVars>>

\* Mem8Fs::rename(from, to): read, write, delete.
FsRename(from, to) ==
    /\ fsOpen
    /\ nFsCalls < MaxFsCalls
    /\ nFsCalls' = nFsCalls + 1
    /\ LET r == FsReadFrom(FsState, normalize_path(from))
       IN  IF r.ok
           THEN LET d == FsDeleteFrom(FsWriteTo(FsState, normalize_path(to), r.bytes),
                                      normalize_path(from))
                IN  /\ FsApply(d.st)
                    /\ fsDeleted' = (fsDeleted \ {normalize_path(to)})
                                        \cup (IF d.ok THEN {normalize_path(from)} ELSE {})
                    /\ fsLast' = [NoFsCall EXCEPT !.op = "rename", !.ok = d.ok,
                                                  !.path = normalize_path(to), !.bytes = r.bytes]
           ELSE /\ fsLast' = [NoFsCall EXCEPT !.op = "rename", !.ok = FALSE,
                                              !.path = normalize_path(to)]
                /\ UNCHANGED <<fsIndex, fsCache, dataFile, indexFile, fsDeleted>>
    /\ UNCHANGED <<fsOpen, fsMetadata, metaFile, nFsOpens, liteVars, clock, mcpVars, marineVars>>

NextFs ==
    \/ FsNew
    \/ FsClose
    \/ \E path \in PathArgs, d \in DataSet : FsWrite(path, d)
    \/ \E path \in PathArgs : FsRead(path)
    \/ \E path \in PathArgs : FsExists(path)
    \/ \E path \in PathArgs : FsDelete(path)
    \/ \E from \in PathArgs, to \in PathArgs : FsCopy(from, to)
    \/ \E from \in PathArgs, to \in PathArgs : FsRename(from, to)
    \/ Tick

\* No Mem8Lite log and no Mem8Fs exist.
InitMem8Fs == InitLite({<<>>}) /\ InitFs /\ InitMcp /\ InitMarineDefault

SpecFs == InitMem8Fs /\ [][NextFs]_vars

---------------------------------------------------------------------------
\* The codec driven through one store and its retrieves: an instance just
\* opened on a new path with base f, one store of any payload, retrieves.
CodecBases == {1000, 1618, 2000, InfF}
CodecData == SeqsUpTo(ByteSet, MaxLen + 1)
CodecMeta == {None, Some(<<200>>)}

InitCodec ==
    /\ disk = <<>>
    /\ fpos = 0
    /\ isOpen = TRUE
    /\ frequency \in CodecBases
    /\ cache = EmptyCache
    /\ position = 0
    /\ clock = 0
    /\ last = [NoCall EXCEPT !.op = "open", !.n = frequency]
    /\ failed = FALSE
    /\ prev = NoPrev
    /\ stored = <<>>
    /\ nStores = 0
    /\ nFails = 0
    /\ nOpens = 1
    /\ signed = {}
    /\ InitFs
    /\ InitMcp
    /\ InitMarineDefault

NextCodec ==
    \/ \E d \in CodecData, m \in CodecMeta : nStores = 0 /\ Store(d, m)
    \/ \E s \in DOMAIN cache : Retrieve(s)

SpecCodec == InitCodec /\ [][NextCodec]_vars

\* Instances opened with any base, zero and negative ones included.
OpenBases == {-1000, 0, 1000}

InitBases == InitLite({<<>>}) /\ InitFs /\ InitMcp /\ InitMarineDefault

NextBases ==
    \/ \E f \in OpenBases : Open(f)
    \/ Close
    \/ \E d \in DataSet : Store(d, None)
    \/ \E s \in ProbeSigs : Retrieve(s)

SpecBases == InitBases /\ [][NextBases]_vars

---------------------------------------------------------------------------
\* Mem8McpServer: store_memory and retrieve_memory called from several threads
\* on the one Mem8Lite behind Arc<Mutex<..>>. The server is created by
\* Mem8McpServer::new, which opens the store with base 1.618.
ServerBase == 1618
PerspectiveSet == {127}

\* serde_json::to_vec(&meta): the perspective and the time of the call.
MetaJson(perspective, now) == <<perspective, now>>

\* Mutant of LockStorage: the store is entered without waiting for the mutex.
LockStorageNoWait(t) == TRUE

\* self.storage.lock(): the calling thread goes on when no thread holds the mutex.
LockStorage(t) == mutex = 0

ServerNew ==
    /\ \A t \in Threads : pc[t] = "idle"
    /\ Open(ServerBase)

\* A client calls store_memory on thread t.
StoreMemoryCall(t, data, perspective) ==
    /\ isOpen
    /\ pc[t] = "idle"
    /\ nCalls < MaxCalls
    /\ nCalls' = nCalls + 1
    /\ pc' = [pc EXCEPT ![t] = "store_lock"]
    /\ req' = [req EXCEPT ![t] = [NoReq EXCEPT !.tool = "store_memory", !.data = data,
                                               !.perspective = perspective,
                                               !.contended = (mutex /= 0)]]
    /\ UNCHANGED <<mutex, liteVars, clock, fsVars, marineVars>>
    /\ UNCHANGED srv

\* store_memory takes the mutex, stamps the metadata; store builds the packet.
StoreMemoryLock(t) ==
    /\ pc[t] = "store_lock"
    /\ LockStorage(t)
    /\ mutex' = t
    /\ LET packet == NewPacket(req[t].data, Some(MetaJson(req[t].perspective, clock)))
       IN  req' = [req EXCEPT ![t].packet = packet, ![t].signature = packet.signature]
    /\ pc' = [pc EXCEPT ![t] = "store_header"]
    /\ UNCHANGED <<nCalls, liteVars, clock, fsVars, marineVars>>
    /\ UNCHANGED srv

\* persist_packet: write_u64 of the length prefix.
StoreMemoryWriteLen(t) ==
    /\ pc[t] = "store_header"
    /\ LET header == WriteU64BE(Len(Serialize(req[t].packet)))
       IN  /\ disk' = WriteAt(disk, fpos, header)
           /\ fpos' = fpos + Len(header)
    /\ pc' = [pc EXCEPT ![t] = "store_payload"]
    /\ UNCHANGED <<isOpen, frequency, cache, position, last, failed, prev, stored,
                   nStores, nFails, nOpens, signed>>
    /\ UNCHANGED <<mutex, req, nCalls, clock, fsVars, marineVars>>
    /\ UNCHANGED srv

\* persist_packet: write_all of the packet, flush, position update.
StoreMemoryWriteAll(t) ==
    /\ pc[t] = "store_payload"
    /\ LET encoded == Serialize(req[t].packet)
       IN  /\ disk' = WriteAt(disk, fpos, encoded)
           /\ fpos' = fpos + Len(encoded)
           /\ position' = position + HDR + Len(encoded)
    /\ pc' = [pc EXCEPT ![t] = "store_insert"]
    /\ UNCHANGED <<isOpen, frequency, cache, last, failed, prev, stored,
                   nStores, nFails, nOpens, signed>>
    /\ UNCHANGED <<mutex, req, nCalls, clock, fsVars, marineVars>>
    /\ UNCHANGED srv

\* store: cache.insert and Ok(signature); store_memory returns and the guard
\* is dropped.
StoreMemoryReturn(t) ==
    /\ pc[t] = "store_insert"
    /\ LET packet == req[t].packet
       IN  /\ cache' = CacheInsert(cache, packet)
           /\ stored' = Append(stored, [data |-> req[t].data, meta |-> packet.metadata,
                                        sig |-> packet.signature, ts |-> packet.timestamp,
                                        at |-> fpos - Len(Frame(packet))])
           /\ signed' = signed \cup {[data |-> req[t].data, meta |-> packet.metadata,
                                      sig |-> packet.signature,
                                      base |-> packet.frequency, ts |-> packet.timestamp]}
    /\ mutex' = 0
    /\ pc' = [pc EXCEPT ![t] = "idle"]
    /\ req' = [req EXCEPT ![t].done = TRUE]
    /\ UNCHANGED <<disk, fpos, isOpen, frequency, position, last, failed, prev,
                   nStores, nFails, nOpens>>
    /\ UNCHANGED <<nCalls, clock, fsVars, marineVars>>
    /\ UNCHANGED srv

\* persist_packet: the write in progress fails after k cells; store and
\* store_memory return the error and the guard is dropped.
StoreMemoryFail(t, k) ==
    /\ pc[t] \in {"store_header", "store_payload"}
    /\ nFails < MaxFails
    /\ nFails' = nFails + 1
    /\ LET encoded == Serialize(req[t].packet)
           cells == IF pc[t] = "store_header" THEN WriteU64BE(Len(encoded)) ELSE encoded
       IN  /\ k < Len(cells)
           /\ disk' = WriteAt(disk, fpos, SubSeq(cells, 1, k))
           /\ fpos' = fpos + k
    /\ failed' = TRUE
    /\ mutex' = 0
    /\ pc' = [pc EXCEPT ![t] = "idle"]
    /\ req' = [req EXCEPT ![t].done = TRUE, ![t].ok = FALSE]
    /\ UNCHANGED <<isOpen, frequency, cache, position, last, prev, stored,
                   nStores, nOpens, signed>>
    /\ UNCHANGED <<nCalls, clock, fsVars, marineVars>>
    /\ UNCHANGED srv

\* A client calls retrieve_memory on thread t.
RetrieveMemoryCall(t, sig) ==
    /\ isOpen
    /\ pc[t] = "idle"
    /\ nCalls < MaxCalls
    /\ nCalls' = nCalls + 1
    /\ pc' = [pc EXCEPT ![t] = "retrieve_lock"]
    /\ req' = [req EXCEPT ![t] = [NoReq EXCEPT !.tool = "retrieve_memory",
                                               !.signature = sig,
                                               !.contended = (mutex /= 0)]]
    /\ UNCHANGED <<mutex, liteVars, clock, fsVars, marineVars>>
    /\ UNCHANGED srv

\* retrieve_memory takes the mutex.
RetrieveMemoryLock(t) ==
    /\ pc[t] = "retrieve_lock"
    /\ LockStorage(t)
    /\ mutex' = t
    /\ pc' = [pc EXCEPT ![t] = "retrieve_read"]
    /\ UNCHANGED <<req, nCalls, liteVars, clock, fsVars, marineVars>>
    /\ UNCHANGED srv

\* retrieve and get_metadata under the guard; retrieve_memory returns and the
\* guard is dropped.
RetrieveMemoryReturn(t) ==
    /\ pc[t] = "retrieve_read"
    /\ LET sig == req[t].signature
       IN  IF sig \in DOMAIN cache
           THEN \E out \in RetrieveResults(sig) :
                    req' = [req EXCEPT ![t].done = TRUE, ![t].found = TRUE,
                                       ![t].data = out, ![t].packet = cache[sig]]
           ELSE req' = [req EXCEPT ![t].done = TRUE, ![t].ok = FALSE]
    /\ mutex' = 0
    /\ pc' = [pc EXCEPT ![t] = "idle"]
    /\ UNCHANGED <<nCalls, liteVars, clock, fsVars, marineVars>>
    /\ UNCHANGED srv

\* The signatures clients ask for: of packets in the index, of packets being
\* stored, and of packets never stored.
AskedSigs == ProbeSigs \cup DOMAIN cache \cup {req[t].signature : t \in Threads}

\* Where a failing write of the server stops.
ServerFailPoints == {0, 3}

NextMcp ==
    \/ ServerNew
    \/ Tick
    \/ \E t \in Threads, d \in DataSet, p \in PerspectiveSet : StoreMemoryCall(t, d, p)
    \/ \E t \in Threads : StoreMemoryLock(t)
    \/ \E t \in Threads : StoreMemoryWriteLen(t)
    \/ \E t \in Threads : StoreMemoryWriteAll(t)
    \/ \E t \in Threads : StoreMemoryReturn(t)
    \/ \E t \in Threads, k \in ServerFailPoints : StoreMemoryFail(t, k)
    \/ \E t \in Threads, s \in AskedSigs : RetrieveMemoryCall(t, s)
    \/ \E t \in Threads : RetrieveMemoryLock(t)
    \/ \E t \in Threads : RetrieveMemoryReturn(t)

SpecMcp == Init /\ [][NextMcp]_vars

---------------------------------------------------------------------------
\* The mood, activity, DJ and sensor tools of Mem8McpServer.  Each handler
\* takes its mutexes in program order with lock().unwrap(); a guard bound to
\* a local lives to the end of the handler (hold), a guard that is a
\* temporary or is bound inside an inner block is dropped before the next
\* lock.
ToolSet == {"get_mood_state", "set_activity", "dj_suggest", "get_sensor_data",
            "detect_fatigue", "get_wave_context"}

\* Two of the activity names set_activity accepts.
ActivitySet == {"Programming", "Relaxing"}

Acquire(m, hold) == [mutex |-> m, hold |-> hold]

LockPlan(tool) ==
    CASE tool = "get_mood_state" ->
           <<Acquire("mood_engine", TRUE), Acquire("current_activity", TRUE),
             Acquire("sensor_buffer", TRUE)>>
      [] tool = "set_activity" ->
           <<Acquire("current_activity", FALSE), Acquire("sensor_buffer", TRUE)>>
      [] tool = "dj_suggest" ->
           <<Acquire("current_activity", FALSE), Acquire("dj_mode", TRUE),
             Acquire("sensor_buffer", TRUE)>>
      [] tool = "get_sensor_data" -> <<Acquire("sensor_buffer", TRUE)>>
      [] tool = "detect_fatigue" -> <<Acquire("sensor_buffer", TRUE)>>
      [] tool = "get_wave_context" ->
           <<Acquire("sensor_buffer", TRUE), Acquire("current_activity", TRUE)>>

\* Mutex::lock returns when no thread holds the mutex.
LockFree(t, m) == srv.locks[m] = 0

\* A client calls one of the tools on thread t.
ToolCall(t, tool, activity) ==
    /\ isOpen
    /\ pc[t] = "idle"
    /\ nCalls < MaxCalls
    /\ nCalls' = nCalls + 1
    /\ pc' = [pc EXCEPT ![t] = "locking"]
    /\ req' = [req EXCEPT ![t] = [NoReq EXCEPT !.tool = tool, !.step = 1,
                                               !.activity = activity]]
    /\ UNCHANGED <<mutex, srv, liteVars, clock, fsVars, marineVars>>

\* The handler takes its next mutex.  set_activity replaces the activity
\* under its first guard.
ToolLock(t) ==
    /\ pc[t] = "locking"
    /\ req[t].step <= Len(LockPlan(req[t].tool))
    /\ LET a == LockPlan(req[t].tool)[req[t].step]
       IN  /\ LockFree(t, a.mutex)
           /\ srv' = [srv EXCEPT !.locks[a.mutex] = IF a.hold THEN t ELSE 0,
                                 !.current_activity =
                                     IF req[t].tool = "set_activity" /\ req[t].step = 1
                                     THEN req[t].activity ELSE @]
    /\ req' = [req EXCEPT ![t].step = @ + 1]
    /\ UNCHANGED <<mutex, pc, nCalls, liteVars, clock, fsVars, marineVars>>

\* The handler has all its mutexes: it does its work and returns, and its
\* guards are dropped.  set_activity pushes a transition; detect_fatigue
\* sets fatigue_level = min(activity_log.len() * 0.01 + 0.0, 1.0), in 1/100.
ToolReturn(t) ==
    /\ pc[t] = "locking"
    /\ req[t].step > Len(LockPlan(req[t].tool))
    /\ srv' = [srv EXCEPT !.locks = [m \in MutexNames |-> IF srv.locks[m] = t THEN 0
                                                         ELSE srv.locks[m]],
                          !.activity_log =
                              IF req[t].tool = "set_activity" THEN @ + 1 ELSE @,
                          !.fatigue_level =
                              IF req[t].tool = "detect_fatigue"
                              THEN Min(100, srv.activity_log) ELSE @]
    /\ pc' = [pc EXCEPT ![t] = "idle"]
    /\ req' = [req EXCEPT ![t].done = TRUE]
    /\ UNCHANGED <<mutex, nCalls, liteVars, clock, fsVars, marineVars>>

NextTools ==
    \/ ServerNew
    \/ \E t \in Threads, tool \in ToolSet, a \in ActivitySet : ToolCall(t, tool, a)
    \/ \E t \in Threads : ToolLock(t)
    \/ \E t \in Threads : ToolReturn(t)

\* No server yet, and no log.
InitTools == InitLite({<<>>}) /\ InitFs /\ InitMcp /\ InitMarineDefault

SpecTools == InitTools /\ [][NextTools]_vars


---------------------------------------------------------------------------
\* The MarineProcessor driven: scans of sample sequences and summaries.
\* A processor just built by new() and configured, or by for_audio.
InitMarine ==
    /\ marine \in {Configured(MarineNew, c, g, w) :
                       c \in ClipSet, g \in GridSet, w \in WonderSet}
                  \cup {for_audio(r) : r \in RateSet}
    /\ mLast = NoMarineCall
    /\ nScans = 0

\* process_samples(samples) on the processor
ProcessSamples(samples) ==
    /\ LET r == process_samples(marine, samples)
       IN  /\ marine' = r.mp
           /\ mLast' = [NoMarineCall EXCEPT !.op = "process_samples", !.samples = samples,
                                           !.panicked = r.panicked, !.peaks = r.peaks,
                                           !.divisors = r.divisors, !.before = marine,
                                           !.total = mLast.total + Len(samples),
                                           !.emitted = mLast.emitted \o r.peaks]
    /\ nScans' = nScans + 1
    /\ UNCHANGED <<liteVars, clock, fsVars, mcpVars>>

\* extract_metadata(&peaks) on the peaks the last process_samples returned
ExtractMetadata ==
    /\ mLast.op = "process_samples"
    /\ ~mLast.panicked
    /\ mLast' = [mLast EXCEPT !.op = "extract_metadata",
                              !.metadata = extract_metadata(mLast.peaks),
                              !.divisors = extract_metadata(mLast.peaks).divisors]
    /\ UNCHANGED <<marine, nScans, liteVars, clock, fsVars, mcpVars>>

NextMarine ==
    \/ \E samples \in SamplesSet :
          /\ nScans < MaxScans
          /\ mLast.total + Len(samples) <= MaxTotalLen
          /\ ProcessSamples(samples)
    \/ ExtractMetadata

InitMarineOnly == InitLite({<<>>}) /\ InitFs /\ InitMcp /\ InitMarine

SpecMarine == InitMarineOnly /\ [][NextMarine]_vars

\* One scan of a long sequence of impulses by a processor from new(), and
\* its summary.
MaxImpulseLen == 10

ImpulseSamples == SeqsUpTo({0, 900}, MaxImpulseLen)

InitImpulses == InitLite({<<>>}) /\ InitFs /\ InitMcp /\ InitMarineDefault

NextImpulses ==
    \/ \E samples \in ImpulseSamples : nScans = 0 /\ ProcessSamples(samples)
    \/ ExtractMetadata

SpecImpulses == InitImpulses /\ [][NextImpulses]_vars

\* Several scans of long trains of peaks by one configured processor: the
\* processor carries its averages and its ring buffer from scan to scan.
MaxTrainScans == 5

\* 2n + 1 samples alternating low and high: n peaks when high passes the gate.
Train(n, low, high) == [i \in 1..(2 * n + 1) |-> IF i % 2 = 0 THEN high ELSE low]

TrainSet == {Train(1, 0, 900), Train(2, -900, -150), Train(9, 0, 900)}

NextTrains ==
    \/ \E samples \in TrainSet : nScans < MaxTrainScans /\ ProcessSamples(samples)
    \/ ExtractMetadata

SpecTrains == InitMarineOnly /\ [][NextTrains]_vars

---------------------------------------------------------------------------
\* Vocabulary of the properties: the log read as the format defines it, a
\* sequence of [8-cell length L][L cells] records from offset 0.  payloads are
\* the complete records in file order; tail says how the file ends: "clean"
\* (at a record boundary), "partial_header" (fewer than 8 cells are left) or
\* "truncated" (a whole length prefix announcing more cells than are left).
RECURSIVE FrameScan(_, _, _)
FrameScan(file, off, acc) ==
    IF off = Len(file) THEN [payloads |-> acc, tail |-> "clean"]
    ELSE IF off + HDR > Len(file) THEN [payloads |-> acc, tail |-> "partial_header"]
    ELSE LET len == ReadU64BE(SubSeq(file, off + 1, off + HDR), 0)
         IN  IF off + HDR + len > Len(file)
             THEN [payloads |-> acc, tail |-> "truncated"]
             ELSE FrameScan(file, off + HDR + len,
                            Append(acc, SubSeq(file, off + HDR + 1, off + HDR + len)))

Records(file) == FrameScan(file, 0, <<>>)

\* The indices of the complete records of the file that deserialize.
ValidRecords(file) ==
    {i \in 1..Len(Records(file).payloads) : Deserialize(Records(file).payloads[i]).ok}

\* The indices of the complete records of the file that do not deserialize.
CorruptRecords(file) ==
    {i \in 1..Len(Records(file).payloads) : ~Deserialize(Records(file).payloads[i]).ok}

PacketOfRecord(file, i) == Deserialize(Records(file).payloads[i]).packet

\* The index is the last-record-wins replay of the file.
IsReplayOf(c, file) ==
    /\ DOMAIN c = {PacketOfRecord(file, i).signature : i \in ValidRecords(file)}
    /\ \A i \in ValidRecords(file) :
          (\A j \in ValidRecords(file) :
               PacketOfRecord(file, j).signature = PacketOfRecord(file, i).signature => j <= i)
          => c[PacketOfRecord(file, i).signature] = PacketOfRecord(file, i)

IsPrefix(s, t) == Len(s) <= Len(t) /\ SubSeq(t, 1, Len(s)) = s

---------------------------------------------------------------------------
\* C1: after successful stores on an instance opened with base f, closing it
\* and opening a new instance with the same base over the unmodified log gives
\* an index with the same signatures, and retrieve returns the same bytes.
C1_ReopenSameIndex ==
    [][(/\ ~isOpen /\ prev.closed /\ ~failed
        /\ nOpens' = nOpens + 1
        /\ last'.n = prev.frequency)
       => (/\ isOpen'
           /\ DOMAIN cache' = DOMAIN prev.view
           /\ \A s \in DOMAIN prev.view : RetrieveResults(s)' = prev.view[s])]_vars

\* The bytes retrieve returned are the bytes of the one store made, one wave
\* per byte in input order.
RoundTrip ==
    (last.op = "retrieve" /\ last.ok /\ Len(stored) = 1 /\ stored[1].sig = last.sig)
        => (/\ last.bytes = stored[1].data
            /\ Len(cache[last.sig].waves) = Len(stored[1].data)
            /\ \A i \in 1..Len(stored[1].data) : cache[last.sig].waves[i].ph = i - 1)

\* C2 as stated: for every byte sequence and every base > 0, decoding the
\* waves of the encoding with the same base returns the bytes, one wave per
\* byte in input order, so retrieve(store(b, m)) = b.
C2_RoundTripAnyBase == frequency > 0 => RoundTrip

\* C2 as amended: the same for every finite base > 0 (of normal f64 range).
C2_RoundTripFiniteBase == (frequency > 0 /\ frequency < InfF) => RoundTrip

C2_Witness ==
    /\ last.op = "retrieve" /\ last.ok /\ frequency = 1618
    /\ Len(stored) = 1 /\ stored[1].data = <<255, 1>> /\ last.bytes = <<255, 1>>

\* C3: opening over a log whose last record is truncated succeeds, and the
\* index holds exactly the packets of the complete records before it.
C3_TruncatedTailOpens ==
    (last.op = "open" /\ Records(disk).tail = "truncated")
        => (last.ok /\ isOpen /\ IsReplayOf(cache, disk))

\* C4: with no failing call, the index of an open instance is the
\* last-record-wins replay of the log.
C4_IndexIsReplay ==
    (isOpen /\ ~failed) => IsReplayOf(cache, disk)

\* A step that is a store call returning Ok, or returning Err.
StoreOkStep == last'.op = "store" /\ last'.ok /\ nStores' = nStores + 1
StoreErrStep == last'.op = "store" /\ ~last'.ok /\ nStores' = nStores + 1

\* C5: storing the same (bytes, metadata) pair again on one open instance
\* returns the same signature, does not grow the index, and leaves the entry
\* with the timestamp of the later store.
C5_StoreTwice ==
    [][(StoreOkStep /\ \E i \in 1..Len(stored) :
                          stored[i].data = last'.bytes /\ stored[i].meta = last'.meta)
       => (/\ \A i \in 1..Len(stored) :
                 (stored[i].data = last'.bytes /\ stored[i].meta = last'.meta)
                     => stored[i].sig = last'.sig
           /\ Cardinality(DOMAIN cache') = Cardinality(DOMAIN cache)
           /\ last'.sig \in DOMAIN cache'
           /\ cache'[last'.sig].timestamp = clock
           /\ cache'[last'.sig].metadata = last'.meta)]_vars

C5_Witness ==
    /\ last.op = "store" /\ last.ok /\ Len(stored) = 2
    /\ stored[1].data = stored[2].data /\ stored[1].meta = stored[2].meta
    /\ stored[2].ts > stored[1].ts
    /\ Cardinality(DOMAIN cache) = 1

\* C6: the log is append-only: every step leaves the old file content as a
\* prefix of the new one, and a successful store adds exactly one record, an
\* 8-cell big-endian length L followed by the L cells of the packet.
C6_AppendOnly ==
    [][/\ IsPrefix(disk, disk')
       /\ StoreOkStep =>
            LET added == SubSeq(disk', Len(disk) + 1, Len(disk'))
            IN  /\ Len(added) >= HDR
                /\ ReadU64BE(SubSeq(added, 1, HDR), 0) = Len(added) - HDR
                /\ SubSeq(added, HDR + 1, Len(added)) = Serialize(cache'[last'.sig])
       /\ (~StoreOkStep /\ ~StoreErrStep) => disk' = disk]_vars

C6_Witness ==
    /\ last.op = "store" /\ last.ok
    /\ IsPrefix(CorruptLog, disk) /\ Len(disk) > Len(CorruptLog)

\* C7: a store that fails leaves the index as it was: no entry is added or
\* replaced, and retrieve and get_metadata answer as before.
C7_FailedStoreKeepsIndex ==
    [][StoreErrStep
       => (/\ cache' = cache
           /\ \A s \in DOMAIN cache : RetrieveResults(s)' = RetrieveResults(s))]_vars

C7_Witness ==
    /\ last.op = "store" /\ ~last.ok /\ last.n > HDR
    /\ cache /= EmptyCache /\ last.sig \notin DOMAIN cache

C9_RetrieveNotFound ==
    [][last'.op = "retrieve"
       => (/\ last'.ok <=> last'.sig \in DOMAIN cache
           /\ UNCHANGED <<cache, disk, position, fpos, frequency>>)]_vars

C9_Witness ==
    /\ last.op = "retrieve" /\ ~last.ok
    /\ cache /= EmptyCache /\ Len(disk) > 0

C11_NonPositiveBaseRejected ==
    (last.op = "open" /\ last.n <= 0) => (~last.ok /\ ~isOpen)

\* C12: the signature store returns is a function of the bytes and the
\* metadata only: stores of the same pair return the same signature whatever
\* the base, the time, the index and log at the time, and the instance.
C12_SignatureOfContentOnly ==
    /\ \A x \in signed, y \in signed :
          (x.data = y.data /\ x.meta = y.meta) => x.sig = y.sig
    /\ (last.op = "store" /\ last.ok)
          => \E x \in signed : x.data = last.bytes /\ x.meta = last.meta /\ x.sig = last.sig

C12_Witness ==
    /\ last.op = "store" /\ last.ok
    /\ \E x \in signed, y \in signed :
          /\ x.data = y.data /\ x.meta = y.meta /\ x.sig = y.sig
          /\ x.base /= y.base /\ x.ts /= y.ts
          /\ y.sig = last.sig /\ y.base = frequency
          /\ Cardinality(DOMAIN cache) > 1

\* The metadata passed to the latest store of this instance that produced sig.
LatestStored(sig) ==
    LET made == {i \in 1..Len(stored) : stored[i].sig = sig}
    IN  stored[CHOOSE i \in made : \A j \in made : j <= i].meta

FullyAppended(packet) ==
    LET record == Frame(packet)
    IN  \E off \in 0..Len(disk) :
            /\ off + Len(record) <= fpos
            /\ off + Len(record) <= Len(disk)
            /\ SubSeq(disk, off + 1, off + Len(record)) = record

\* C14: with store_memory and retrieve_memory running on several threads, a
\* retrieve finds nothing or a complete packet whose record is already whole
\* in the log, and no packet is in the index before its record is whole in
\* the log.
C14_RetrieveSeesWholeRecords ==
    /\ \A t \in Threads :
          (req[t].tool = "retrieve_memory" /\ req[t].done)
             => IF req[t].found
                THEN /\ req[t].ok
                     /\ req[t].packet.signature = req[t].signature
                     /\ FullyAppended(req[t].packet)
                ELSE ~req[t].ok
    /\ \A sig \in DOMAIN cache : FullyAppended(cache[sig])

C14_Witness ==
    \E t \in Threads, u \in Threads :
        /\ t /= u
        /\ req[t].tool = "retrieve_memory" /\ req[t].done /\ req[t].found
        /\ req[t].contended
        /\ req[u].tool = "store_memory" /\ req[u].done /\ req[u].ok
        /\ req[u].packet = req[t].packet

\* The input as process_samples gates it, by the index of the code (from 0).
GatedAt(mp, samples, i) ==
    IF Abs(samples[i + 1]) < mp.clip_threshold THEN 0 ELSE samples[i + 1]

PeakPositions(mp, samples) ==
    {i \in 1..(Len(samples) - 2) :
        /\ GatedAt(mp, samples, i - 1) < GatedAt(mp, samples, i)
        /\ GatedAt(mp, samples, i) > GatedAt(mp, samples, i + 1)
        /\ GatedAt(mp, samples, i) /= 0}

\* C15: process_samples of an empty or one-element sequence returns no peak,
\* does not panic, divides by no zero, and leaves the EMAs and the ring
\* buffer as they were.
C15_ShortInputIsSafe ==
    (mLast.op = "process_samples" /\ Len(mLast.samples) <= 1)
        => (/\ ~mLast.panicked
            /\ mLast.peaks = <<>>
            /\ 0 \notin mLast.divisors
            /\ marine = mLast.before)

\* C16: for an input of 3 or more samples process_samples returns, in
\* strictly increasing position order, exactly one peak for each index i in
\* 1..n-2 with g[i-1] < g[i] > g[i+1] and g[i] /= 0, g being the gated
\* input, and each peak's amplitude is g[i].
C16_PeaksAreLocalMaxima ==
    (mLast.op = "process_samples" /\ Len(mLast.samples) >= 3)
        => LET peaks == mLast.peaks
           IN  /\ ~mLast.panicked
               /\ \A j \in 1..(Len(peaks) - 1) : peaks[j].index < peaks[j + 1].index
               /\ {peaks[j].index : j \in 1..Len(peaks)}
                      = PeakPositions(mLast.before, mLast.samples)
               /\ \A j \in 1..Len(peaks) :
                      peaks[j].amplitude = GatedAt(mLast.before, mLast.samples, peaks[j].index)

C16_Witness ==
    /\ mLast.op = "process_samples" /\ Len(mLast.peaks) = 2
    /\ mLast.peaks[2].index = Len(mLast.samples) - 2
    /\ \E i \in 1..Len(mLast.samples) :
          mLast.samples[i] /= 0 /\ Abs(mLast.samples[i]) < mLast.before.clip_threshold

\* The differences between consecutive peak positions.
Spacings(peaks) == [i \in 1..(Len(peaks) - 1) |-> peaks[i + 1].index - peaks[i].index]

\* The population variance of the k spacings is below (0.2 * mean)^2:
\* sum(d^2)/k - (S/k)^2 < S^2/(25 k^2), multiplied by 25 k^2.
LowVariance(d) ==
    LET k == Len(d)
        S == SumOver(d, k)
    IN  25 * k * SumOver([i \in 1..k |-> d[i] * d[i]], k) < 26 * S * S

\* C17: has_rhythm holds exactly when there are 4 or more peaks and the
\* variance of their spacings is below (0.2 * mean spacing)^2; 4 or more
\* equally spaced peaks have rhythm, fewer than 4 peaks have none.
C17_RhythmIffLowVariance ==
    (mLast.op = "extract_metadata")
        => LET peaks == mLast.peaks
               d == Spacings(peaks)
           IN  /\ mLast.metadata.has_rhythm
                     <=> (Len(peaks) >= 4 /\ LowVariance(d))
               /\ (Len(peaks) >= 4 /\ \A i \in 1..Len(d) : d[i] = d[1])
                     => mLast.metadata.has_rhythm
               /\ Len(peaks) < 4 => ~mLast.metadata.has_rhythm

C17_Witness ==
    /\ mLast.op = "extract_metadata" /\ Len(mLast.peaks) = 4
    /\ mLast.metadata.has_rhythm
    /\ \A i \in 1..3 : Spacings(mLast.peaks)[i] = 2

\* The average absolute amplitude times the number of peaks, and the number
\* of peaks taken as at least 1.
AmplitudeSum(peaks) == SumOver([i \in 1..Len(peaks) |-> Abs(peaks[i].amplitude)], Len(peaks))
PeakCount(peaks) == IF Len(peaks) = 0 THEN 1 ELSE Len(peaks)

HighRatio(peaks) == 2 * Wonders(peaks) > PeakCount(peaks)
HighAmplitude(peaks) == AmplitudeSum(peaks) > 800 * PeakCount(peaks)
LowAmplitude(peaks) == AmplitudeSum(peaks) < 200 * PeakCount(peaks)
MidRatio(peaks) == 10 * Wonders(peaks) > 3 * PeakCount(peaks)

\* C18 as stated: the label is chosen by the first matching rule of: ratio
\* above 0.5, average amplitude above 0.8, ratio above 0.3, else the default;
\* no other rule goes before the ratio above 0.3.
C18_LabelPriority ==
    (mLast.op = "extract_metadata")
        => LET peaks == mLast.peaks
               label == mLast.metadata.emotional_signature
           IN  /\ HighRatio(peaks) => label = "Wondrous"
               /\ (~HighRatio(peaks) /\ HighAmplitude(peaks)) => label = "Energetic"
               /\ (~HighRatio(peaks) /\ ~HighAmplitude(peaks) /\ MidRatio(peaks))
                     => label = "Musical"

\* C18 as amended: the first matching rule of: ratio above 0.5, average
\* amplitude above 0.8, average amplitude below 0.2, ratio above 0.3, else
\* the default.
C18_LabelPriorityWithLowAmplitude ==
    (mLast.op = "extract_metadata")
        => LET peaks == mLast.peaks
               label == mLast.metadata.emotional_signature
           IN  /\ HighRatio(peaks) => label = "Wondrous"
               /\ (~HighRatio(peaks) /\ HighAmplitude(peaks)) => label = "Energetic"
               /\ (~HighRatio(peaks) /\ ~HighAmplitude(peaks) /\ LowAmplitude(peaks))
                     => label = "Peaceful"
               /\ (~HighRatio(peaks) /\ ~HighAmplitude(peaks) /\ ~LowAmplitude(peaks)
                   /\ MidRatio(peaks)) => label = "Musical"
               /\ (~HighRatio(peaks) /\ ~HighAmplitude(peaks) /\ ~LowAmplitude(peaks)
                   /\ ~MidRatio(peaks)) => label = "Flowing"

C18_Witness ==
    /\ mLast.op = "extract_metadata"
    /\ mLast.metadata.emotional_signature = "Peaceful"
    /\ MidRatio(mLast.peaks) /\ ~HighRatio(mLast.peaks)

\* C19: no division made by process_samples or extract_metadata has a zero
\* divisor, whatever the parameters of the processor.
C19_NoZeroDivisor ==
    (mLast.op \in {"process_samples", "extract_metadata"}) => 0 \notin mLast.divisors

\* The result of the scan with the wonder threshold set to t.
ScanUnder(mp, samples, t) == process_samples([mp EXCEPT !.wonder_threshold = t], samples)

\* C20: for a fixed input scanned from the same processor state, the peaks
\* have the same salience under every threshold, each is flagged exactly when
\* its salience is above the threshold, and a higher threshold never gives a
\* higher high-salience count.
C20_ThresholdMonotone ==
    [][(mLast'.op = "process_samples" /\ nScans' = nScans + 1)
       => /\ mLast'.peaks = ScanUnder(marine, mLast'.samples, marine.wonder_threshold).peaks
          /\ \A t1, t2 \in WonderSet \cup {marine.wonder_threshold} :
               t1 < t2 =>
                 LET p1 == ScanUnder(marine, mLast'.samples, t1).peaks
                     p2 == ScanUnder(marine, mLast'.samples, t2).peaks
                 IN  /\ Len(p1) = Len(p2)
                     /\ \A i \in 1..Len(p1) :
                           /\ p1[i].salience = p2[i].salience
                           /\ p1[i].has_wonder <=> p1[i].salience > t1
                           /\ p2[i].has_wonder <=> p2[i].salience > t2
                     /\ extract_metadata(p2).wonder_count <= extract_metadata(p1).wonder_count]_vars

C20_Witness ==
    /\ mLast.op = "process_samples" /\ Len(mLast.peaks) >= 2
    /\ mLast.before.wonder_threshold = 400
    /\ Wonders(mLast.peaks) = 1
    /\ Wonders(ScanUnder(mLast.before, mLast.samples, 800).peaks) = 0

AllZero(samples) == \A i \in 1..Len(samples) : samples[i] = 0

\* C21: extract_metadata of an empty peak list reports 0 peaks, 0
\* high-salience peaks, average and maximum salience 0 and no rhythm, and
\* divides by no zero; an all-zero input of 1 or more samples yields no peak.
C21_EmptyAndSilent ==
    /\ (mLast.op = "extract_metadata" /\ mLast.peaks = <<>>)
          => /\ mLast.metadata.total_peaks = 0
             /\ mLast.metadata.wonder_count = 0
             /\ mLast.metadata.average_salience = 0
             /\ mLast.metadata.max_salience = 0
             /\ ~mLast.metadata.has_rhythm
             /\ 0 \notin mLast.divisors
    /\ (mLast.op = "process_samples" /\ Len(mLast.samples) >= 1 /\ AllZero(mLast.samples))
          => (~mLast.panicked /\ mLast.peaks = <<>>)

C21_Witness ==
    /\ mLast.op = "extract_metadata" /\ mLast.peaks = <<>>
    /\ Len(mLast.samples) = MaxSampleLen /\ AllZero(mLast.samples)

\* The last n elements of a sequence.
LastOf(seq, n) == SubSeq(seq, Len(seq) - n + 1, Len(seq))

\* C22: after any sequence of process_samples calls the ring buffer holds at
\* most 32 records, which are the most recent min(32, total emitted) peaks
\* in emission order.
C22_RingHoldsMostRecent ==
    /\ Len(marine.recent_peaks) <= RecentCap
    /\ marine.recent_peaks = LastOf(mLast.emitted, Min(RecentCap, Len(mLast.emitted)))

C22_Witness ==
    /\ mLast.op = "process_samples" /\ nScans = MaxTrainScans
    /\ Len(mLast.emitted) = 4 * 9 + 2
    /\ Len(mLast.peaks) = 9
    /\ Len(marine.recent_peaks) = RecentCap

\* C23: in one call the first peak's interval is its position, every later
\* peak's interval is its position minus the position of the peak before it
\* and is 2 or more, and every interval is 1 or more.
C23_IntervalIsDistance ==
    (mLast.op = "process_samples")
        => LET peaks == mLast.peaks
           IN  /\ Len(peaks) >= 1 => peaks[1].interval = peaks[1].index - 0
               /\ \A j \in 2..Len(peaks) :
                     /\ peaks[j].interval = peaks[j].index - peaks[j - 1].index
                     /\ peaks[j].interval >= 2
               /\ \A j \in 1..Len(peaks) : peaks[j].interval >= 1

C23_Witness ==
    /\ mLast.op = "process_samples" /\ Len(mLast.peaks) = 2
    /\ mLast.peaks[1].index = 1 /\ mLast.peaks[1].interval = 1
    /\ mLast.peaks[2].interval = 2
    /\ Len(mLast.before.recent_peaks) > 0

\* The position, amplitude and interval of each peak of a list.
Places(peaks) ==
    [j \in 1..Len(peaks) |-> [index |-> peaks[j].index, amplitude |-> peaks[j].amplitude,
                              interval |-> peaks[j].interval]]

\* A processor from new() with the given clip threshold.
Fresh(clip) == [MarineNew EXCEPT !.clip_threshold = clip]

\* C30: the positions, amplitudes and intervals of the peaks of a scan are
\* those a fresh processor with the same clip_threshold returns for the same
\* input, whatever the processor has scanned before.
C30_PeaksIgnoreCarriedState ==
    [][(mLast'.op = "process_samples" /\ nScans' = nScans + 1)
       => Places(mLast'.peaks)
             = Places(process_samples(Fresh(marine.clip_threshold), mLast'.samples).peaks)]_vars

C30_Witness ==
    /\ mLast.op = "process_samples" /\ nScans = MaxTrainScans
    /\ Len(mLast.before.recent_peaks) = RecentCap
    /\ mLast.before.grid_tick_rate /= MarineNew.grid_tick_rate
    /\ Len(mLast.peaks) = 2
    /\ Places(mLast.peaks)
          = Places(process_samples(Fresh(mLast.before.clip_threshold), mLast.samples).peaks)
    /\ mLast.peaks /= process_samples(Fresh(mLast.before.clip_threshold), mLast.samples).peaks

\* Every store made on the open instance is still answered with its bytes
\* and its metadata.
Identified ==
    \A i \in 1..Len(stored) :
        /\ stored[i].sig \in DOMAIN cache
        /\ RetrieveResults(stored[i].sig) = {stored[i].data}
        /\ cache[stored[i].sig].metadata = stored[i].meta

\* C24: a signature returned by a store keeps identifying its (bytes,
\* metadata) pair: a later successful store of another pair leaves retrieve
\* and get_metadata of every earlier signature answering the earlier pair.
C24_SignatureKeepsIdentifying ==
    [][(StoreOkStep /\ Identified
        /\ \A i \in 1..Len(stored) :
              stored[i].data /= last'.bytes \/ stored[i].meta /= last'.meta)
       => Identified']_vars

\* The log held an incomplete record before the offset the record was
\* written at.
PartialBefore(rec) == Records(SubSeq(disk, 1, rec.at)).tail /= "clean"

\* The last store of each signature made by the instance closed last.
LatestOfPrev ==
    {i \in 1..Len(prev.stored) :
        \A j \in 1..Len(prev.stored) : prev.stored[j].sig = prev.stored[i].sig => j <= i}

\* C25: a partial record in the log costs no later data: a store that
\* returned Ok after the log held an incomplete record is retrieved with its
\* bytes after the instance is closed and the log reopened with the same base.
C25_PartialRecordCostsNothing ==
    (last.op = "open" /\ prev.closed /\ last.n = prev.frequency)
        => \A i \in LatestOfPrev :
              PartialBefore(prev.stored[i])
                 => (/\ last.ok /\ isOpen
                     /\ prev.stored[i].sig \in DOMAIN cache
                     /\ RetrieveResults(prev.stored[i].sig) = {prev.stored[i].data})

\* The packet a successful store built.
PacketOfStore(x) ==
    [signature |-> x.sig,
     waves |-> [i \in 1..Len(x.data) |-> [mag |-> Amplitude(x.base, x.data[i]), ph |-> i - 1]],
     metadata |-> x.meta, frequency |-> x.base, timestamp |-> x.ts]

\* C26: retrieve returns the bytes a packet was stored with, whatever the
\* base of the instance that reads it: it decodes with the base recorded in
\* the packet.
C26_DecodesWithRecordedBase ==
    (last.op = "retrieve" /\ last.ok /\ frequency > 0)
        => \A x \in signed :
              cache[last.sig] = PacketOfStore(x) => last.bytes = x.data

\* C27: whenever exists(path) is true, read(path) succeeds and returns the
\* bytes of the most recent write to the path (the bytes whose signature the
\* index entry of the path holds), also in an instance opened later on the
\* same root.
C27_ExistingFileIsReadable ==
    (fsOpen /\ fsLast.op = "read" /\ fsLast.path \in DOMAIN fsIndex)
        => (/\ fsLast.ok
            /\ generate_signature(fsLast.bytes) = fsIndex[fsLast.path].signature
            /\ Len(fsLast.bytes) = fsIndex[fsLast.path].size)

\* C28: after a successful rename(from, to), read(to) returns the bytes
\* read(from) returned before the call, for every pair of paths, from = to
\* included.
C28_RenameKeepsContent ==
    (fsOpen /\ fsLast.op = "rename" /\ fsLast.ok)
        => (/\ FsReadFrom(FsState, fsLast.path).ok
            /\ FsReadFrom(FsState, fsLast.path).bytes = fsLast.bytes)

\* Thread t is inside a handler, waiting for a mutex another thread holds.
Waiting(t) ==
    /\ pc[t] = "locking"
    /\ req[t].step <= Len(LockPlan(req[t].tool))
    /\ srv.locks[LockPlan(req[t].tool)[req[t].step].mutex] \notin {0, t}

\* C29: the tools never deadlock: there is no set of calls in progress each
\* of which waits for a mutex held by another call of the set, so every call
\* can still get its mutexes and return.
C29_NoDeadlock ==
    ~ \E stuck \in SUBSET Threads :
          /\ stuck /= {}
          /\ \A t \in stuck :
                /\ Waiting(t)
                /\ srv.locks[LockPlan(req[t].tool)[req[t].step].mutex] \in stuck

====
